---- MODULE Spec2Model ----
(***************************************************************************)
(* A model of limit_reached.py: the bounded, randomized, depth-first crawl *)
(* of scrape_jobs / process_links_recursively, its retry-wrapped page      *)
(* operations, its two time budgets, its record cap and the acquisition    *)
(* and release of the browsing session.                                    *)
(*                                                                         *)
(* The single coroutine is modelled by a program counter (pc) for          *)
(* scrape_jobs and a stack of frames for the nested calls of               *)
(* process_links_recursively; the last frame is the call that is running.  *)
(* The outcome of every operation of the browser (what a page links to,    *)
(* the address a page reports, whether a call raises, how long it takes)   *)
(* is an input chosen when the operation is performed.                     *)
(*                                                                         *)
(* Time is counted in ticks.  The code reads the clock only in the two     *)
(* differences time.time() - last_save_time[0] (line 78) and time.time() - *)
(* deeper_start_time (line 101), so the model keeps these two differences  *)
(* (since_save, and since_deeper in each frame) instead of the three       *)
(* timestamps, and stops counting a difference once it is past its budget. *)
(***************************************************************************)
EXTENDS Integers, Sequences, FiniteSets, TLC

\* ------------------------------------------------------------------ bounds
\* Number of distinct job-offer addresses the site can serve.
NAddr == 3
\* Most links one page yields to find_job_links.
MaxLinks == 2
\* Longest duration, in ticks, of one awaited page operation.
MaxStep == 1
\* Longest duration, in ticks, of the find_job_links of a node, with its
\* page-ready wait and its settle delay.
MaxFind == 2

\* ------------------------------------------------------- program constants
\* The values are scaled down to the clock and the address space above.
ROOT_URL == 0
MAX_RECORDS == 2
MAX_RETRY_FAILS == 3
TIMEOUT_DEEPER_SECONDS == 1
\* The value TIMEOUT_TOTAL_SECONDS is configured to, unless it is set to 0.
TotalBudget == 2

Addr == 1 .. NAddr
Durations == 0 .. MaxStep
FindDurations == 0 .. MaxFind
\* The documents a page object can show: nothing yet, the root page, a job page.
Blank == -1

VARIABLES
    pc,                     \* position of scrape_jobs
    exc,                    \* an exception is propagating out of the `async with` block
    session,                \* playwright driver, browser, context and page: "none" | "open" | "closed"
    releases,               \* how many times each of them has been released
    page_doc,               \* the address the shared page object was last navigated to
    TIMEOUT_TOTAL_SECONDS,  \* run configuration, read once
    visited_links,
    unique_urls,
    job_results,
    since_save,             \* time.time() - last_save_time[0]
    root_queue,
    stack,                  \* frames of process_links_recursively, innermost last
    retry_log,              \* the call through the retry decorator made by the last step, if any
    calls,                  \* how many times the explorer was invoked, per address
    deadline_fired,         \* the check of line 78 has fired at least once
    root_start_len,         \* len(job_results) when the current root branch was started
    dropped,                \* the unvisited candidates left behind by the breaks of line 103
    persisted               \* the ledgers handed to write_to_csv, in order

vars == << pc, exc, session, releases, page_doc, TIMEOUT_TOTAL_SECONDS,
           visited_links, unique_urls, job_results, since_save, root_queue,
           stack, retry_log, calls, deadline_fired, root_start_len, dropped,
           persisted >>

\* ----------------------------------------------------------------- helpers
Min(a, b) == IF a < b THEN a ELSE b

\* All link lists a page can yield (order and repetitions are the document's).
LinkLists == UNION { [1 .. n -> Addr] : n \in 0 .. MaxLinks }

Perms(n) == { p \in [1 .. n -> 1 .. n] : \A i, j \in 1 .. n : p[i] = p[j] => i = j }

\* random.shuffle: every reordering of the list is a possible outcome.
Shuffles(s) == { [i \in 1 .. Len(s) |-> s[p[i]]] : p \in Perms(Len(s)) }

Urls(results) == { results[i].url : i \in 1 .. Len(results) }

Top == stack[Len(stack)]

SetTop(stk, f) == [stk EXCEPT ![Len(stk)] = f]

\* (mutant) the call without its entry check: it starts at the load.
NewFrameLoading(link, depth) ==
    [ link |-> link, depth |-> depth, pc |-> "Loading", job_data |-> << >>,
      deeper_links |-> << >>, started |-> FALSE, since_deeper |-> 0,
      load |-> "none" ]

\* A frame of process_links_recursively: its arguments, its position (the
\* node's phase) and its locals.  started: deeper_start_time has been taken.
\* load: how the page.goto of the call ended, "none" before it.
NewFrame(link, depth) ==
    [ link |-> link, depth |-> depth, pc |-> "Scheduled", job_data |-> << >>,
      deeper_links |-> << >>, started |-> FALSE, since_deeper |-> 0,
      load |-> "none" ]

NoCall == [ op |-> "none", fails |-> 0, attempts |-> 0, raised |-> FALSE, got |-> FALSE,
            took |-> 0 ]

\* ------------------------------------------------------------------- clock
\* d ticks pass: time.time() - last_save_time[0] after them.
SaveAge(d) == Min(since_save + d, TIMEOUT_TOTAL_SECONDS + 1)

\* d ticks pass: time.time() - deeper_start_time in every frame that has taken it.
Elapse(stk, d) ==
    [ i \in 1 .. Len(stk) |->
        IF stk[i].started
        THEN [stk[i] EXCEPT !.since_deeper = Min(@ + d, TIMEOUT_DEEPER_SECONDS + 1)]
        ELSE stk[i] ]

\* (mutant) deeper_start_time kept in one cell for the whole recursion and set
\* by the first node only: a node below another measures from the caller's start.
DeeperAgeOfCaller(stk, d) ==
    IF Len(stk) >= 2 /\ stk[Len(stk) - 1].started
    THEN stk[Len(stk) - 1].since_deeper
    ELSE Min(d, TIMEOUT_DEEPER_SECONDS + 1)

\* time.time() - deeper_start_time of the running call when find_job_links
\* returns, d ticks after line 96 took deeper_start_time (a local of the call);
\* stk is the stack after the d ticks.
DeeperAge(stk, d) == Min(d, TIMEOUT_DEEPER_SECONDS + 1)

\* ------------------------------------------------------------ retry wrapper
\* (mutant) the body without its own handler: a failure of the page operation
\* leaves the body as an exception.
AttemptBodyRaises(ok, value, degraded) ==
    IF ok THEN [ raised |-> FALSE, value |-> value ]
          ELSE [ raised |-> TRUE, value |-> degraded ]

\* One run of the body of extract_job_data / find_job_links: the page
\* operation either yields `value` or fails; the body's own `except Exception`
\* turns the failure into the degraded value and returns it.
AttemptBody(ok, value, degraded) ==
    IF ok THEN [ raised |-> FALSE, value |-> value ]
          ELSE [ raised |-> FALSE, value |-> degraded ]

\* tenacity's retry(stop=stop_after_attempt(MAX_RETRY_FAILS)): the body is run
\* again only when it raised, and RetryError is raised after the last attempt.
\* `fails` is the number of leading attempts on which the page operation fails.
RECURSIVE Retrying(_, _, _, _)
Retrying(attempt, fails, value, degraded) ==
    LET r == AttemptBody(attempt > fails, value, degraded)
    IN  IF ~r.raised
        THEN [ raised |-> FALSE, value |-> r.value, attempts |-> attempt ]
        ELSE IF attempt >= MAX_RETRY_FAILS
             THEN [ raised |-> TRUE, value |-> degraded, attempts |-> attempt ]
             ELSE Retrying(attempt + 1, fails, value, degraded)

\* What the call did: got = it returned the value the page operation yields
\* when it succeeds; took = the ticks that passed until it returned.
CallLog(op, fails, value, r, d) ==
    [ op |-> op, fails |-> fails, attempts |-> r.attempts, raised |-> r.raised,
      got |-> (~r.raised /\ r.value = value), took |-> d ]

\* (mutant) the navigation skipped: the page keeps the document it had.
DocumentKept(link) == page_doc

\* The document page.goto(link) leaves in the shared page when it succeeds.
Document(link) == link

\* The addresses page.url can report after a navigation to `link`: the link
\* itself, or the canonical address the site redirects it to.
PageUrls(link) == {link, IF link > 1 THEN link - 1 ELSE link}

\* The record extract_job_data builds: the document's h1 and page.url.
JobData(url) == << [ title |-> page_doc, url |-> url ] >>

\* extract_job_data(page); None is the empty sequence.
ExtractJobData(fails, url) == Retrying(1, fails, JobData(url), << >>)

\* find_job_links(page)
FindJobLinks(fails, links) == Retrying(1, fails, links, << >>)

\* ------------------------------------------------------------------ session
AllNone == [ pw |-> "none", browser |-> "none", context |-> "none", page |-> "none" ]

Open(s, r) == [s EXCEPT ![r] = "open"]

\* The session after the resources of `rs` that are open have been released.
Close(rs) == [ r \in DOMAIN session |->
                 IF r \in rs /\ session[r] = "open" THEN "closed" ELSE session[r] ]

\* The release counts after the same.
Released(rs) ==
    [ r \in DOMAIN releases |->
        IF r \in rs /\ session[r] = "open" THEN releases[r] + 1 ELSE releases[r] ]

\* (mutant) the driver started without the `async with` scope: an exception
\* leaves scrape_jobs with nothing stopped.
RaiseOutUnscoped == /\ exc' = TRUE
                    /\ pc' = "raised"

\* An exception leaves the `async with` block, whose exit runs (line 121), and
\* then scrape_jobs, without passing line 146.
RaiseOut == /\ exc' = TRUE
            /\ pc' = "exit_with"

Init ==
    /\ pc = "launch"
    /\ exc = FALSE
    /\ session = AllNone
    /\ releases = [ r \in DOMAIN AllNone |-> 0 ]
    /\ page_doc = Blank
    /\ TIMEOUT_TOTAL_SECONDS \in {0, TotalBudget}
    /\ visited_links = {}
    /\ unique_urls = {}
    /\ job_results = << >>
    /\ since_save = 0
    /\ root_queue = << >>
    /\ stack = << >>
    /\ retry_log = NoCall
    /\ calls = [ a \in Addr |-> 0 ]
    /\ deadline_fired = FALSE
    /\ root_start_len = 0
    /\ dropped = {}
    /\ persisted = << >>

crawlVars == << visited_links, unique_urls, job_results, root_queue, stack,
                calls, deadline_fired, root_start_len, dropped >>

\* Lines 121-122: async_playwright() is entered and chromium is launched; the
\* launch of a browser takes a tick at least.
Launch ==
    /\ pc = "launch"
    /\ \E d \in Durations \ {0} : since_save' = SaveAge(d)
    /\ \/ /\ session' = Open(Open(session, "pw"), "browser")
          /\ pc' = "new_context"
          /\ exc' = exc
       \/ /\ session' = Open(session, "pw")
          /\ RaiseOut
    /\ retry_log' = NoCall
    /\ UNCHANGED << releases, page_doc, TIMEOUT_TOTAL_SECONDS, persisted >>
    /\ UNCHANGED crawlVars

\* Line 123.
NewContext ==
    /\ pc = "new_context"
    /\ \E d \in Durations : since_save' = SaveAge(d)
    /\ \/ /\ session' = Open(session, "context")
          /\ pc' = "new_page"
          /\ exc' = exc
       \/ /\ session' = session
          /\ RaiseOut
    /\ retry_log' = NoCall
    /\ UNCHANGED << releases, page_doc, TIMEOUT_TOTAL_SECONDS, persisted >>
    /\ UNCHANGED crawlVars

\* Line 124.
NewPage ==
    /\ pc = "new_page"
    /\ \E d \in Durations : since_save' = SaveAge(d)
    /\ \/ /\ session' = Open(session, "page")
          /\ pc' = "root_goto"
          /\ exc' = exc
       \/ /\ session' = session
          /\ RaiseOut
    /\ retry_log' = NoCall
    /\ UNCHANGED << releases, page_doc, TIMEOUT_TOTAL_SECONDS, persisted >>
    /\ UNCHANGED crawlVars

\* ------------------------------------------------------------- root phase
\* Lines 139-140: a critical error is logged, then the finally block runs.
CriticalError == pc' = "close_context"

\* Line 128: page.goto(ROOT_URL).
RootGoto ==
    /\ pc = "root_goto"
    /\ \E d \in Durations : since_save' = SaveAge(d)
    /\ \/ /\ page_doc' = Document(ROOT_URL)
          /\ pc' = "root_find"
       \/ /\ page_doc' = page_doc
          /\ CriticalError
    /\ retry_log' = NoCall
    /\ UNCHANGED << exc, session, releases, TIMEOUT_TOTAL_SECONDS, persisted >>
    /\ UNCHANGED crawlVars

\* Lines 129-130: root_links = find_job_links(page); root_queue.extend(root_links).
RootFind ==
    /\ pc = "root_find"
    /\ \E d \in Durations, fails \in 0 .. MAX_RETRY_FAILS, links \in LinkLists :
          LET r == FindJobLinks(fails, links)
          IN  /\ since_save' = SaveAge(d)
              /\ retry_log' = CallLog("find", fails, links, r, d)
              /\ IF r.raised
                 THEN /\ CriticalError
                      /\ root_queue' = root_queue
                 ELSE /\ pc' = "root_loop"
                      /\ root_queue' = root_queue \o r.value
    /\ UNCHANGED << exc, session, releases, page_doc, TIMEOUT_TOTAL_SECONDS, persisted >>
    /\ UNCHANGED << visited_links, unique_urls, job_results, stack,
                    calls, deadline_fired, root_start_len, dropped >>

\* (mutant) the cap compared with <= : one more root branch is started.
RootLoopGoesOnInclusive == root_queue # << >> /\ Len(job_results) <= MAX_RECORDS

\* The condition of the while loop of line 132.
RootLoopGoesOn == root_queue # << >> /\ Len(job_results) < MAX_RECORDS

\* (mutant) the root loop without its visited check.
RootLinkIsNewAlways(link) == TRUE

\* Whether a popped root link is handed to the explorer (line 135).
RootLinkIsNew(link) == link \notin visited_links

\* The call of the explorer: process_links_recursively is entered for `link`
\* on top of the caller's frames.
Invoke(callers, link, depth) ==
    /\ stack' = Append(callers, NewFrame(link, depth))
    /\ calls' = [calls EXCEPT ![link] = @ + 1]

\* Lines 132-137, one turn of the root loop that starts a root branch.
RootExplore ==
    /\ pc = "root_loop"
    /\ stack = << >>
    /\ RootLoopGoesOn
    /\ RootLinkIsNew(Head(root_queue))
    /\ root_queue' = Tail(root_queue)
    /\ visited_links' = visited_links \cup {Head(root_queue)}
    /\ Invoke(stack, Head(root_queue), 0)
    /\ root_start_len' = Len(job_results)
    /\ dropped' = dropped
    /\ retry_log' = NoCall
    /\ UNCHANGED << pc, exc, session, releases, page_doc, since_save, TIMEOUT_TOTAL_SECONDS,
                    persisted, unique_urls, job_results, deadline_fired >>

\* Lines 132-135, one turn of the root loop on a link already visited.
RootSkip ==
    /\ pc = "root_loop"
    /\ stack = << >>
    /\ RootLoopGoesOn
    /\ ~RootLinkIsNew(Head(root_queue))
    /\ root_queue' = Tail(root_queue)
    /\ retry_log' = NoCall
    /\ UNCHANGED << pc, exc, session, releases, page_doc, since_save, TIMEOUT_TOTAL_SECONDS,
                    persisted, visited_links, unique_urls, job_results,
                    stack, calls, deadline_fired, root_start_len, dropped >>

\* Line 132: the queue is empty or the cap is reached; on to the finally block.
RootExit ==
    /\ pc = "root_loop"
    /\ stack = << >>
    /\ ~RootLoopGoesOn
    /\ pc' = "close_context"
    /\ retry_log' = NoCall
    /\ UNCHANGED << exc, session, releases, page_doc, since_save, TIMEOUT_TOTAL_SECONDS,
                    persisted >>
    /\ UNCHANGED crawlVars

\* ---------------------------------------------------------------- explorer
InExplorer == pc = "root_loop" /\ stack # << >>

\* Line 78.
DeadlineExceeded == since_save > TIMEOUT_TOTAL_SECONDS

\* (mutant) the loop without its budget check.
DeeperExceededNever(f) == FALSE

\* Line 101.
DeeperExceeded(f) == f.since_deeper > TIMEOUT_DEEPER_SECONDS

\* (mutant) the save without the check against unique_urls.
IsNewRecordAny(job_data) == job_data # << >>

\* Line 87.
IsNewRecord(job_data) == job_data # << >> /\ job_data[1].url \notin unique_urls

\* (mutant) last_save_time set after the if, for every node.
LastSaveAgeReset(saved) == 0

\* time.time() - last_save_time[0] after lines 87-93: line 90 sets
\* last_save_time to the present time when the record was saved, and only then.
LastSaveAge(saved) == IF saved THEN 0 ELSE since_save

\* (mutant) the record put at the front of the list.
InsertRecord(results, record) == << record >> \o results

\* Line 88: job_results.append(job_data).
AppendRecord(results, record) == Append(results, record)

\* Line 105.
IsNewLink(link) == link \notin visited_links

\* The running call returns to its caller, which goes on where it called.
Return(stk) ==
    /\ stack' = SubSeq(stk, 1, Len(stk) - 1)
    /\ pc' = pc

\* An exception is raised in the running call, inside its try block (lines
\* 82-107): control goes to the call's own handler.
Raise(stk) ==
    /\ stack' = [stk EXCEPT ![Len(stk)].pc = "Failed"]
    /\ pc' = pc

\* (mutant) the call without its handler: the exception leaves every running
\* call and reaches the handler of scrape_jobs (line 139).
NodeErrorPropagates(stk) ==
    /\ stack' = << >>
    /\ pc' = "close_context"

\* Lines 109-110: the handler logs the error and the call returns.
NodeError(stk) ==
    /\ stack' = SubSeq(stk, 1, Len(stk) - 1)
    /\ pc' = pc

\* (mutant) the warning is logged but the return is missing: the call goes on.
DeadlineAbortFallsThrough(stk) ==
    /\ stack' = [stk EXCEPT ![Len(stk)].pc = "Loading"]
    /\ pc' = pc

\* Lines 79-80: the warning is logged and the call returns.
DeadlineAbort(stk) ==
    /\ stack' = SubSeq(stk, 1, Len(stk) - 1)
    /\ pc' = pc

\* Lines 78-80: the deadline check fires and the call returns at once.
EnterDeadline ==
    /\ InExplorer
    /\ Top.pc = "Scheduled"
    /\ DeadlineExceeded
    /\ DeadlineAbort(stack)
    /\ deadline_fired' = TRUE
    /\ retry_log' = NoCall
    /\ UNCHANGED << exc, session, releases, page_doc, since_save, TIMEOUT_TOTAL_SECONDS,
                    persisted, visited_links, unique_urls, job_results,
                    root_queue, calls, root_start_len, dropped >>

\* Lines 78-83: the deadline check passes.
EnterNode ==
    /\ InExplorer
    /\ Top.pc = "Scheduled"
    /\ ~DeadlineExceeded
    /\ stack' = SetTop(stack, [Top EXCEPT !.pc = "Loading"])
    /\ retry_log' = NoCall
    /\ UNCHANGED << pc, exc, session, releases, page_doc, since_save, TIMEOUT_TOTAL_SECONDS,
                    persisted, visited_links, unique_urls, job_results,
                    root_queue, calls, deadline_fired, root_start_len, dropped >>

\* How page.goto(link, wait_until="load", timeout=GLOBAL_TIMEOUT) can fail: the
\* load event does not come within GLOBAL_TIMEOUT (TimeoutError), or the
\* navigation itself fails.
GotoFailures == {"timeout", "error"}

\* Line 84: page.goto(link).  The document a failed navigation leaves is never
\* read (every read of the page follows a successful goto), so it is not modelled.
Goto ==
    /\ InExplorer
    /\ Top.pc = "Loading"
    /\ \E d \in Durations :
          /\ since_save' = SaveAge(d)
          /\ \/ /\ page_doc' = Document(Top.link)
                /\ stack' = SetTop(Elapse(stack, d),
                                   [Top EXCEPT !.pc = "Extracting", !.load = "ok"])
                /\ pc' = pc
             \/ /\ page_doc' = page_doc
                /\ \E failure \in GotoFailures :
                      Raise(SetTop(Elapse(stack, d), [Top EXCEPT !.load = failure]))
    /\ retry_log' = NoCall
    /\ UNCHANGED << exc, session, releases, TIMEOUT_TOTAL_SECONDS, persisted,
                    visited_links, unique_urls, job_results, root_queue,
                    calls, deadline_fired, root_start_len, dropped >>

\* Lines 109-110: the node's failure is caught, logged, and the call returns.
HandleError ==
    /\ InExplorer
    /\ Top.pc = "Failed"
    /\ NodeError(stack)
    /\ retry_log' = NoCall
    /\ UNCHANGED << exc, session, releases, page_doc, since_save, TIMEOUT_TOTAL_SECONDS,
                    persisted, visited_links, unique_urls, job_results,
                    root_queue, calls, deadline_fired, root_start_len, dropped >>

\* Line 86: job_data = await extract_job_data(page).
Extract ==
    /\ InExplorer
    /\ Top.pc = "Extracting"
    /\ \E d \in Durations, fails \in 0 .. MAX_RETRY_FAILS, url \in PageUrls(Top.link) :
          LET r == ExtractJobData(fails, url)
          IN  /\ since_save' = SaveAge(d)
              /\ retry_log' = CallLog("extract", fails, JobData(url), r, d)
              /\ IF r.raised
                 THEN Raise(Elapse(stack, d))
                 ELSE /\ stack' = SetTop(Elapse(stack, d),
                                         [Top EXCEPT !.pc = "Extracted", !.job_data = r.value])
                      /\ pc' = pc
    /\ UNCHANGED << exc, session, releases, page_doc, TIMEOUT_TOTAL_SECONDS, persisted,
                    visited_links, unique_urls, job_results, root_queue, calls,
                    deadline_fired, root_start_len, dropped >>

\* Lines 87-93: a record not yet known is appended, its address is added to
\* unique_urls and last_save_time is set to the present time.
Save ==
    /\ InExplorer
    /\ Top.pc = "Extracted"
    /\ IF IsNewRecord(Top.job_data)
       THEN /\ job_results' = AppendRecord(job_results, Top.job_data[1])
            /\ unique_urls' = unique_urls \cup {Top.job_data[1].url}
       ELSE UNCHANGED << job_results, unique_urls >>
    /\ since_save' = LastSaveAge(IsNewRecord(Top.job_data))
    /\ stack' = SetTop(stack, [Top EXCEPT !.pc = "LinkDiscovery"])
    /\ retry_log' = NoCall
    /\ UNCHANGED << pc, exc, session, releases, page_doc, TIMEOUT_TOTAL_SECONDS, persisted,
                    visited_links, root_queue, calls, deadline_fired, root_start_len, dropped >>

\* Lines 96-98: deeper_start_time is taken, then deeper_links = await
\* find_job_links(page), then random.shuffle(deeper_links).  job_data is not
\* read again and leaves the frame.
Discover ==
    /\ InExplorer
    /\ Top.pc = "LinkDiscovery"
    /\ \E d \in FindDurations, fails \in 0 .. MAX_RETRY_FAILS, links \in LinkLists :
          LET r == FindJobLinks(fails, links)
          IN  /\ since_save' = SaveAge(d)
              /\ retry_log' = CallLog("find", fails, links, r, d)
              /\ IF r.raised
                 THEN Raise(Elapse(stack, d))
                 ELSE /\ \E s \in Shuffles(r.value) :
                          stack' = SetTop(Elapse(stack, d),
                                         [Top EXCEPT !.pc = "Recursing",
                                                     !.job_data = << >>,
                                                     !.deeper_links = s,
                                                     !.started = TRUE,
                                                     !.since_deeper =
                                                         DeeperAge(Elapse(stack, d), d)])
                      /\ pc' = pc
    /\ UNCHANGED << exc, session, releases, page_doc, TIMEOUT_TOTAL_SECONDS, persisted,
                    visited_links, unique_urls, job_results, root_queue,
                    calls, deadline_fired, root_start_len, dropped >>

\* Line 100: no candidate is left; the call returns.
LoopDone ==
    /\ InExplorer
    /\ Top.pc = "Recursing"
    /\ Top.deeper_links = << >>
    /\ Return(stack)
    /\ retry_log' = NoCall
    /\ UNCHANGED << exc, session, releases, page_doc, since_save, TIMEOUT_TOTAL_SECONDS,
                    persisted, visited_links, unique_urls, job_results,
                    root_queue, calls, deadline_fired, root_start_len, dropped >>

\* Lines 101-103: the deeper budget is spent; the loop breaks and the call returns.
LoopTimeout ==
    /\ InExplorer
    /\ Top.pc = "Recursing"
    /\ Top.deeper_links # << >>
    /\ DeeperExceeded(Top)
    /\ Return(stack)
    /\ dropped' = dropped \cup ({ Top.deeper_links[i] : i \in 1 .. Len(Top.deeper_links) }
                               \ visited_links)
    /\ retry_log' = NoCall
    /\ UNCHANGED << exc, session, releases, page_doc, since_save, TIMEOUT_TOTAL_SECONDS,
                    persisted, visited_links, unique_urls, job_results,
                    root_queue, calls, deadline_fired, root_start_len >>

\* Lines 100-105: the next candidate was visited before and is passed over.
LoopSkip ==
    /\ InExplorer
    /\ Top.pc = "Recursing"
    /\ Top.deeper_links # << >>
    /\ ~DeeperExceeded(Top)
    /\ ~IsNewLink(Head(Top.deeper_links))
    /\ stack' = SetTop(stack, [Top EXCEPT !.deeper_links = Tail(@)])
    /\ retry_log' = NoCall
    /\ UNCHANGED << pc, exc, session, releases, page_doc, since_save, TIMEOUT_TOTAL_SECONDS,
                    persisted, visited_links, unique_urls, job_results,
                    root_queue, calls, deadline_fired, root_start_len, dropped >>

\* Lines 100-107: the next candidate is new; it is marked visited and explored.
LoopRecurse ==
    /\ InExplorer
    /\ Top.pc = "Recursing"
    /\ Top.deeper_links # << >>
    /\ ~DeeperExceeded(Top)
    /\ IsNewLink(Head(Top.deeper_links))
    /\ visited_links' = visited_links \cup {Head(Top.deeper_links)}
    /\ Invoke(SetTop(stack, [Top EXCEPT !.deeper_links = Tail(@)]),
              Head(Top.deeper_links), Top.depth + 1)
    /\ retry_log' = NoCall
    /\ UNCHANGED << pc, exc, session, releases, page_doc, since_save, TIMEOUT_TOTAL_SECONDS,
                    persisted, unique_urls, job_results, root_queue,
                    deadline_fired, root_start_len, dropped >>

\* ------------------------------------------------------------ finalization
\* Line 143: context.close(), which closes the page with it; when it raises,
\* the context may or may not have been closed.
CloseContext ==
    /\ pc = "close_context"
    /\ \/ /\ session' = Close({"context", "page"})
          /\ releases' = Released({"context", "page"})
          /\ pc' = "close_browser"
          /\ exc' = exc
       \/ /\ \/ /\ session' = Close({"context", "page"})
                /\ releases' = Released({"context", "page"})
             \/ UNCHANGED << session, releases >>
          /\ RaiseOut
    /\ retry_log' = NoCall
    /\ UNCHANGED << page_doc, since_save, TIMEOUT_TOTAL_SECONDS, persisted >>
    /\ UNCHANGED crawlVars

\* Line 144: browser.close().
CloseBrowser ==
    /\ pc = "close_browser"
    /\ \/ /\ session' = Close({"browser"})
          /\ releases' = Released({"browser"})
          /\ pc' = "exit_with"
          /\ exc' = exc
       \/ /\ \/ /\ session' = Close({"browser"})
                /\ releases' = Released({"browser"})
             \/ UNCHANGED << session, releases >>
          /\ RaiseOut
    /\ retry_log' = NoCall
    /\ UNCHANGED << page_doc, since_save, TIMEOUT_TOTAL_SECONDS, persisted >>
    /\ UNCHANGED crawlVars

\* What leaving the `async with` block releases: the driver is stopped, and
\* with it whatever it still holds open.
ScopeReleases == DOMAIN session

\* Line 121, the exit of `async with async_playwright()`, normal or by an
\* exception, which then leaves scrape_jobs.
ExitWith ==
    /\ pc = "exit_with"
    /\ session' = Close(ScopeReleases)
    /\ releases' = Released(ScopeReleases)
    /\ pc' = IF exc THEN "raised" ELSE "persist"
    /\ retry_log' = NoCall
    /\ UNCHANGED << exc, page_doc, since_save, TIMEOUT_TOTAL_SECONDS, persisted >>
    /\ UNCHANGED crawlVars

\* Lines 146-151: write_to_csv is given the ledger (an empty list when it is empty).
Persist ==
    /\ pc = "persist"
    /\ persisted' = Append(persisted, job_results)
    /\ pc' = "done"
    /\ retry_log' = NoCall
    /\ UNCHANGED << exc, session, releases, page_doc, since_save, TIMEOUT_TOTAL_SECONDS >>
    /\ UNCHANGED crawlVars

Next ==
    \/ Launch
    \/ NewContext
    \/ NewPage
    \/ RootGoto
    \/ RootFind
    \/ RootExplore
    \/ RootSkip
    \/ RootExit
    \/ EnterDeadline
    \/ EnterNode
    \/ Goto
    \/ HandleError
    \/ Extract
    \/ Save
    \/ Discover
    \/ LoopDone
    \/ LoopTimeout
    \/ LoopSkip
    \/ LoopRecurse
    \/ CloseContext
    \/ CloseBrowser
    \/ ExitWith
    \/ Persist

Spec == Init /\ [][Next]_vars

\* ------------------------------------------------------------------ claims
Frames == { stack[i] : i \in 1 .. Len(stack) }

\* C1: in every reachable state no two records of the ledger have the same
\* address, and unique_urls is exactly the set of the addresses of the records.
C1_LedgerUnique ==
    /\ \A i, j \in 1 .. Len(job_results) :
          job_results[i].url = job_results[j].url => i = j
    /\ unique_urls = Urls(job_results)

\* C1's case: a node reached through another navigation address has just
\* extracted an address the ledger already holds, and was not saved again.
C1_Witness ==
    /\ InExplorer
    /\ Top.pc = "LinkDiscovery"
    /\ Top.job_data # << >>
    /\ \E i \in 1 .. Len(job_results) :
          /\ job_results[i].url = Top.job_data[1].url
          /\ job_results[i].title # Top.job_data[1].title

\* C2: visited_links only grows, and no address is handed to the explorer
\* more than once.
C2_VisitOnce ==
    [][ /\ visited_links \subseteq visited_links'
        /\ \A a \in Addr : calls'[a] <= 1 ]_vars

\* C2's case: an address explored once is found again by a node below the
\* root while it also waits in the root queue.
C2_Witness ==
    /\ InExplorer
    /\ Top.pc = "Recursing"
    /\ Top.depth > 0
    /\ Top.deeper_links # << >>
    /\ calls[Head(Top.deeper_links)] = 1
    /\ \E i \in 1 .. Len(root_queue) : root_queue[i] = Head(Top.deeper_links)

\* C3: a root branch is started only while the ledger is below MAX_RECORDS,
\* and a record is appended only inside a root branch that was started while
\* the ledger was below MAX_RECORDS, also when the append takes the ledger
\* past the cap.
C3_CapGatesRootOnly ==
    [][ /\ (stack = << >> /\ stack' # << >>) => Len(job_results) < MAX_RECORDS
        /\ Len(job_results') > Len(job_results) =>
              /\ stack # << >>
              /\ root_start_len < MAX_RECORDS
        /\ Len(job_results') > MAX_RECORDS => root_start_len' < MAX_RECORDS ]_vars

\* C3's case: the recursion of one root branch has taken the ledger past the cap.
C3_Witness ==
    /\ Len(job_results) > MAX_RECORDS
    /\ InExplorer

C5_RetryThenSuccess ==
    (retry_log.op # "none" /\ retry_log.fails \in 1 .. MAX_RETRY_FAILS - 1)
        => retry_log.got

\* C6: a retry-wrapped call makes at most MAX_RETRY_FAILS attempts and never
\* raises; when its page operation fails on every attempt the caller gets the
\* degraded value: no record, or no links, and then the node is in its
\* candidate loop with no candidate.
C6_DegradedNotRaised ==
    retry_log.op # "none" =>
        /\ retry_log.attempts \in 1 .. MAX_RETRY_FAILS
        /\ ~retry_log.raised
        /\ (retry_log.fails = MAX_RETRY_FAILS /\ retry_log.op = "extract") =>
              (InExplorer /\ Top.pc = "Extracted" /\ Top.job_data = << >>)
        /\ (retry_log.fails = MAX_RETRY_FAILS /\ retry_log.op = "find" /\ stack # << >>) =>
              (InExplorer /\ Top.pc = "Recursing" /\ Top.deeper_links = << >>)
        /\ (retry_log.fails = MAX_RETRY_FAILS /\ retry_log.op = "find" /\ stack = << >>) =>
              (pc = "root_loop" /\ root_queue = << >>)

\* C6's case: the Link Discovery of a node below another node has failed on
\* every attempt, and the node above still has candidates to explore.
C6_Witness ==
    /\ retry_log.op = "find"
    /\ retry_log.fails = MAX_RETRY_FAILS
    /\ Len(stack) >= 2
    /\ stack[Len(stack) - 1].deeper_links # << >>

\* C7: a node whose load or processing fails has added no record and no
\* candidates; the failure is caught in the node's own call, which returns to
\* its caller with the caller's frames, the ledger, the sets and the root
\* queue as they were, and the run goes on.
C7_NodeFailureIsLocal ==
    /\ [](\A i \in 1 .. Len(stack) : stack[i].pc = "Failed" =>
             /\ i = Len(stack)
             /\ stack[i].job_data = << >>
             /\ stack[i].deeper_links = << >>
             /\ \A k \in 1 .. Len(job_results) : job_results[k].title # stack[i].link)
    /\ [][ (stack # << >> /\ Top.pc = "Failed") =>
              /\ pc' = pc
              /\ stack' = SubSeq(stack, 1, Len(stack) - 1)
              /\ UNCHANGED << job_results, unique_urls, visited_links, root_queue,
                              calls, persisted >> ]_vars

\* C7's case: the load of a node below another node has failed and is being
\* handled, and the node above still has a new candidate and the time to
\* explore it.
C7_Witness ==
    /\ Len(stack) >= 2
    /\ Top.pc = "Failed"
    /\ LET parent == stack[Len(stack) - 1]
       IN  /\ parent.deeper_links # << >>
           /\ IsNewLink(Head(parent.deeper_links))
           /\ ~DeeperExceeded(parent)

\* C8 as stated: every run that has entered the root phase ends with the
\* ledger handed to write_to_csv exactly once.
C8_PersistedOnEveryExit ==
    (pc \in {"done", "raised"} /\ session.page # "none") => Len(persisted) = 1

\* C9: each part of the browsing session is acquired at most once and
\* released at most once; when scrape_jobs is past the `async with` block,
\* however it left it, nothing is open and everything acquired has been
\* released exactly once; and the page is used only while all of it is open.
C9_SessionReleasedOnce ==
    /\ [](/\ \A r \in DOMAIN session : releases[r] <= 1
          /\ pc \in {"persist", "done", "raised"} =>
                \A r \in DOMAIN session :
                    /\ session[r] # "open"
                    /\ session[r] = "closed" <=> releases[r] = 1
          /\ pc \in {"root_goto", "root_find", "root_loop"} =>
                \A r \in DOMAIN session : session[r] = "open")
    /\ [][ \A r \in DOMAIN session :
              /\ session[r] # "none" => session'[r] # "none"
              /\ session[r] = "closed" => session'[r] = "closed" ]_vars

\* C9's case: the run was cut short by the global deadline and then left the
\* `async with` block by an exception of the release itself.
C9_Witness ==
    /\ pc = "raised"
    /\ deadline_fired
    /\ \A r \in DOMAIN session : releases[r] = 1

\* C10 as stated: every run that has its session ends, and ends with the
\* ledger handed to write_to_csv; with TIMEOUT_TOTAL_SECONDS = 0 no node was
\* loaded.
C10_EndsFinalized ==
    (session.page # "none" /\ ~ENABLED Next) =>
        /\ pc = "done"
        /\ persisted = << job_results >>
        /\ TIMEOUT_TOTAL_SECONDS = 0 =>
              (job_results = << >> /\ page_doc \in {Blank, ROOT_URL})

\* C11: the deeper budget is per call: when the Link Discovery of a node
\* returns, the node's deeper clock shows the time of that call of
\* find_job_links and nothing else, whatever time the nodes explored before
\* it have spent and whatever the clocks of the calls above it show; a call
\* that has not taken its deeper_start_time has no clock running.
C11_DeeperBudgetPerNode ==
    /\ (retry_log.op = "find" /\ stack # << >>) =>
          /\ Top.pc = "Recursing"
          /\ Top.started
          /\ Top.since_deeper = Min(retry_log.took, TIMEOUT_DEEPER_SECONDS + 1)
    /\ \A f \in Frames : ~f.started => (f.since_deeper = 0 /\ f.pc # "Recursing")

\* C11's case: a node explored after a sibling, below a node whose own budget
\* is spent by now, starts its candidate loop within its budget.
C11_Witness ==
    /\ retry_log.op = "find"
    /\ Len(stack) >= 2
    /\ DeeperExceeded(stack[Len(stack) - 1])
    /\ ~DeeperExceeded(Top)
    /\ Top.deeper_links # << >>
    /\ \E a \in Addr : calls[a] = 1 /\ \A f \in Frames : f.link # a

\* C12 as stated: the ledger is append-only and never holds more than
\* MAX_RECORDS records.
C12_LedgerCapped ==
    /\ [](Len(job_results) <= MAX_RECORDS)
    /\ [][ /\ Len(job_results') >= Len(job_results)
           /\ SubSeq(job_results', 1, Len(job_results)) = job_results ]_vars

\* C12 as amended: the ledger is append-only, one record at a step, and it
\* holds more than MAX_RECORDS records only by the records of one root branch
\* that was started while it held fewer than MAX_RECORDS.
C12_LedgerAppendOnly ==
    /\ [](Len(job_results) > MAX_RECORDS =>
             /\ root_start_len < MAX_RECORDS
             /\ pc \in {"root_loop", "close_context", "close_browser", "exit_with",
                        "persist", "done", "raised"})
    /\ [][ /\ Len(job_results') \in {Len(job_results), Len(job_results) + 1}
           /\ SubSeq(job_results', 1, Len(job_results)) = job_results
           /\ (Len(job_results) >= MAX_RECORDS /\ stack = << >>) =>
                 job_results' = job_results ]_vars

\* C12's case: a run has ended with a ledger longer than MAX_RECORDS, which
\* was handed to write_to_csv.
C12_Witness ==
    /\ pc = "done"
    /\ Len(job_results) > MAX_RECORDS
    /\ persisted = << job_results >>

\* C13 as stated: a node whose page.goto ran into the page-load timeout is not
\* failed; it goes on to Record Extraction and Link Discovery.
C13_LoadTimeoutTolerated ==
    \A f \in Frames :
        f.load = "timeout" => f.pc \in {"Extracting", "Extracted", "LinkDiscovery", "Recursing"}

\* C14 as stated: a node's deeper budget is measured from the moment its
\* candidate list is available: when its Link Discovery returns, none of the
\* budget is used, and so a node with a candidate is within its budget however
\* long the discovery took.
C14_BudgetStartsAfterDiscovery ==
    (retry_log.op = "find" /\ stack # << >> /\ Top.pc = "Recursing") =>
        /\ Top.since_deeper = 0
        /\ Top.deeper_links # << >> => ~DeeperExceeded(Top)

\* C15: when the deeper budget of the running node is spent and candidates
\* are left, the next step of the node is its return: no call is started, no
\* candidate is added to visited_links, and the candidates left are dropped,
\* visited or not as they were; the root queue is as it was.
C15_DroppedStayUnvisited ==
    [][ (InExplorer /\ Top.pc = "Recursing" /\ Top.deeper_links # << >>
           /\ Top.since_deeper > TIMEOUT_DEEPER_SECONDS) =>
              /\ stack' = SubSeq(stack, 1, Len(stack) - 1)
              /\ calls' = calls
              /\ visited_links' = visited_links
              /\ root_queue' = root_queue
              /\ \A i \in 1 .. Len(Top.deeper_links) :
                    Top.deeper_links[i] \notin visited_links =>
                        Top.deeper_links[i] \in dropped' \ visited_links' ]_vars

\* C15's case: a candidate that a node dropped when its budget was spent has
\* been yielded again, by another node or by the root queue, and is explored.
C15_Witness ==
    /\ InExplorer
    /\ Top.pc = "Extracting"
    /\ Top.link \in dropped

\* C16: last_save_time is set only in the step that appends a record: the
\* time since the last save goes down only with an append; and a node whose
\* Record Extraction gave nothing, or an address unique_urls already holds,
\* leaves the ledger, unique_urls and last_save_time as they are and goes on
\* to its Link Discovery.
C16_ProgressOnlyOnAppend ==
    [][ /\ since_save' < since_save => Len(job_results') = Len(job_results) + 1
        /\ (InExplorer /\ Top.pc = "Extracted"
              /\ (Top.job_data = << >> \/ Top.job_data[1].url \in unique_urls)) =>
                 /\ UNCHANGED << job_results, unique_urls, since_save >>
                 /\ stack' = SetTop(stack, [Top EXCEPT !.pc = "LinkDiscovery"]) ]_vars

\* C16's case: some time after the last save, the Record Extraction of a
\* node gave nothing, and the node is at its Link Discovery.
C16_Witness ==
    /\ InExplorer
    /\ Top.pc = "LinkDiscovery"
    /\ Top.job_data = << >>
    /\ job_results # << >>
    /\ since_save > 0
    /\ ~DeadlineExceeded

\* The steps a call takes from one phase to the next; "Extracted" is the part
\* of Extracting after extract_job_data has returned, "Failed" the call's handler.
PhaseSteps ==
    { << "Scheduled", "Loading" >>, << "Loading", "Extracting" >>,
      << "Loading", "Failed" >>, << "Extracting", "Extracted" >>,
      << "Extracted", "LinkDiscovery" >>, << "LinkDiscovery", "Recursing" >> }

\* C17: a call of the explorer starts as Scheduled and passes its phases in
\* the order Scheduled, Loading, Extracting, LinkDiscovery, Recursing, one at a
\* step, until it returns (at once from Scheduled when the deadline check
\* fires, from Loading by a failure, otherwise from Recursing).  A record is
\* appended only by the running node, for its own document, before its Link
\* Discovery, while every call above it is in its candidate loop; a call is
\* started only from a candidate loop.  So the record of a node precedes the
\* records of the nodes below it: the ledger is in depth-first pre-order.
C17_PhaseOrder ==
    /\ [](/\ \A i \in 1 .. Len(stack) - 1 : stack[i].pc = "Recursing"
          /\ \A f \in Frames :
                f.pc # "Recursing" =>
                    (~f.started /\ f.deeper_links = << >>)
          /\ \A f \in Frames :
                f.pc \in {"Scheduled", "Loading", "Extracting", "Extracted", "Failed"} =>
                    \A k \in 1 .. Len(job_results) : job_results[k].title # f.link
          /\ \A i, j \in 1 .. Len(stack), p, q \in 1 .. Len(job_results) :
                (i < j /\ job_results[p].title = stack[i].link
                       /\ job_results[q].title = stack[j].link) => p < q)
    /\ [][ /\ \A i \in 1 .. Len(stack) :
                i <= Len(stack') =>
                    /\ stack'[i].link = stack[i].link
                    /\ \/ stack'[i].pc = stack[i].pc
                       \/ << stack[i].pc, stack'[i].pc >> \in PhaseSteps
           /\ Len(stack') > Len(stack) =>
                 /\ Len(stack') = Len(stack) + 1
                 /\ stack'[Len(stack')].pc = "Scheduled"
                 /\ stack # << >> => Top.pc = "Recursing"
           /\ Len(stack') < Len(stack) =>
                 /\ Len(stack') = Len(stack) - 1
                 /\ Top.pc \in {"Scheduled", "Failed", "Recursing"}
           /\ Len(job_results') > Len(job_results) =>
                 /\ InExplorer
                 /\ Top.pc = "Extracted"
                 /\ stack'[Len(stack)].pc = "LinkDiscovery"
                 /\ job_results'[Len(job_results')].title = Top.link ]_vars

\* C17's case: a node below another node has saved its record after the
\* record of the node above it, and is at its Link Discovery.
C17_Witness ==
    /\ Len(stack) >= 2
    /\ Top.pc = "LinkDiscovery"
    /\ Len(job_results) >= 2
    /\ job_results[Len(job_results)].title = Top.link
    /\ \E p \in 1 .. Len(job_results) - 1 :
          job_results[p].title = stack[Len(stack) - 1].link

\* C18: the deadline is sticky.  From the first deadline check that fires to
\* the end of the run, the time since the last save stays past the budget and
\* the fact stays recorded; no page is loaded, no record is appended, no
\* address joins unique_urls and last_save_time is not set; a call that
\* is started returns at its entry check; visited_links may only grow; and
\* the ledger write_to_csv is given is the ledger of that moment.
C18_DeadlineSticky ==
    /\ [](deadline_fired => since_save = TIMEOUT_TOTAL_SECONDS + 1)
    /\ [](deadline_fired => \A i \in 1 .. Len(persisted) : persisted[i] = job_results)
    /\ [][ deadline_fired =>
              /\ deadline_fired'
              /\ UNCHANGED << page_doc, job_results, unique_urls, since_save >>
              /\ visited_links \subseteq visited_links'
              /\ (stack # << >> /\ Top.pc = "Scheduled") =>
                    stack' = SubSeq(stack, 1, Len(stack) - 1) ]_vars

\* C18's case: a run that saved records was cut short by the deadline, every
\* address was scheduled, and the ledger of that moment has been written.
C18_Witness ==
    /\ deadline_fired
    /\ job_results # << >>
    /\ pc = "done"
    /\ persisted = << job_results >>
    /\ Cardinality(visited_links) = NAddr

\* C19: whenever Record Extraction or Link Discovery is about to run for a
\* node, the shared page shows the document loaded for that node, and the
\* root's Link Discovery runs on the root document; only the load of a call
\* changes the document, and a call that has a child running, or has had one,
\* is in its candidate loop, where the page is not read.
C19_OwnDocument ==
    /\ []((InExplorer /\ Top.pc \in {"Extracting", "Extracted", "LinkDiscovery"}) =>
             (page_doc = Top.link /\ Top.load = "ok"))
    /\ [](pc = "root_find" => page_doc = ROOT_URL)
    /\ [][ /\ page_doc' # page_doc =>
                 \/ pc = "root_goto"
                 \/ InExplorer /\ Top.pc = "Loading" /\ page_doc' = Top.link
           /\ (InExplorer /\ Top.pc = "Recursing") =>
                 /\ retry_log' = NoCall
                 /\ page_doc' = page_doc ]_vars

\* C19's case: a node explored after a sibling that left its own document in
\* the page is at its Link Discovery, below a node in its candidate loop.
C19_Witness ==
    /\ Len(stack) >= 2
    /\ Top.pc = "LinkDiscovery"
    /\ page_doc = Top.link
    /\ \E a \in Addr :
          /\ calls[a] = 1
          /\ \A f \in Frames : f.link # a
          /\ \E k \in 1 .. Len(job_results) : job_results[k].title = a

====
